---- MODULE Spec2Model ----
(***************************************************************************)
(* State model of the Tree component (global-reconciliation variant):      *)
(* expansion, selection, tri-state checked propagation and roving focus.   *)
(***************************************************************************)
EXTENDS Integers, Sequences, FiniteSets, TLC

\* Largest number of nodes of a tree in the checked-state specifications; node ids
\* are 1..n, assigned in pre-order.
MaxNodes == 4
\* Largest number of nodes of a tree in the navigation and dispatch specifications.
MaxNavNodes == 3
\* Largest number of nodes carrying disabled: true, in the navigation and dispatch
\* specifications and in the checked-state and expansion specifications.
MaxDisabled == 1
MaxCheckedDisabled == 0

\* null / undefined for an id-valued field (lastFocusedNodeId, selectedNode, parentId)
NoNode == 0

VARIABLES
    data,               \* props.data: the tree
    expanded,           \* props.expanded (read only when "expanded" \in supplied)
    internalExpanded,   \* useState internalExpanded
    checkedNodes,       \* props.checkedNodes (read only when "checkedNodes" \in supplied)
    selectedNode,       \* props.selectedNode
    lastFocusedNodeId,  \* useState lastFocusedNodeId
    supplied,           \* the optional props the caller passes
    enableBulkActions,  \* props.enableBulkActions
    disableSelection,   \* props.disableSelection
    emitted,            \* callbacks and setInternalExpanded calls of the last event, in order
    last                \* the last event delivered

vars == <<data, expanded, internalExpanded, checkedNodes, selectedNode,
          lastFocusedNodeId, supplied, enableBulkActions, disableSelection,
          emitted, last>>

config == <<data, supplied, enableBulkActions, disableSelection>>

----------------------------------------------------------------------------
\* Trees

Range(s) == {s[i] : i \in DOMAIN s}

RECURSIVE SetToSeq(_)
\* the ascending sequence of a finite set of integers
SetToSeq(S) ==
    IF S = {} THEN <<>>
    ELSE LET m == CHOOSE x \in S : \A y \in S : x <= y
         IN  <<m>> \o SetToSeq(S \ {m})

RECURSIVE Chain(_, _)
\* x and its ancestors under the parent vector p
Chain(p, x) == IF x = NoNode THEN {} ELSE {x} \cup Chain(p, p[x])

\* parent vectors of the forests of n nodes whose ids are their pre-order ranks
ParentVectors(n) ==
    {p \in [1..n -> 0..(n - 1)] :
        \A i \in 1..n : /\ p[i] < i
                        /\ i > 1 => p[i] \in Chain(p, i - 1) \cup {NoNode}}

\* TreeNode[]: roots, and per node its children array and its disabled flag
TreeOf(p, dis) ==
    [roots    |-> SetToSeq({j \in DOMAIN p : p[j] = NoNode}),
     children |-> [i \in DOMAIN p |-> SetToSeq({j \in DOMAIN p : p[j] = i})],
     disabled |-> [i \in DOMAIN p |-> i \in dis]]

Trees(maxNodes, maxDisabled) ==
    UNION {{TreeOf(p, dis) : p \in ParentVectors(n),
                             dis \in {d \in SUBSET (1..n) : Cardinality(d) <= maxDisabled}}
           : n \in 1..maxNodes}

NodeIds == DOMAIN data.children

hasChildren(id) == Len(data.children[id]) > 0

isDisabled(id) == data.disabled[id]

----------------------------------------------------------------------------
\* Helper functions

\* variant: the direct children only, without the recursive push
getAllDescendantIds_DirectOnly(children) == children

RECURSIVE getAllDescendantIds_ExpandedOnly(_)
\* variant: the recursion enters only the children that are expanded (rendered)
getAllDescendantIds_ExpandedOnly(children) ==
    IF children = <<>> THEN <<>>
    ELSE LET child == Head(children)
             open  == IF "expanded" \in supplied THEN expanded ELSE internalExpanded
         IN  <<child>>
             \o (IF Len(data.children[child]) > 0 /\ child \in open
                 THEN getAllDescendantIds_ExpandedOnly(data.children[child]) ELSE <<>>)
             \o getAllDescendantIds_ExpandedOnly(Tail(children))

RECURSIVE getAllDescendantIds(_)
getAllDescendantIds(children) ==
    IF children = <<>> THEN <<>>
    ELSE LET child == Head(children)
         IN  <<child>>
             \o (IF Len(data.children[child]) > 0
                 THEN getAllDescendantIds(data.children[child]) ELSE <<>>)
             \o getAllDescendantIds(Tail(children))

RECURSIVE getLeafNodeIds_SkipDisabled(_)
\* variant: disabled leaves are left out of the list
getLeafNodeIds_SkipDisabled(nodes) ==
    IF nodes = <<>> THEN <<>>
    ELSE LET childNode == Head(nodes)
         IN  (IF Len(data.children[childNode]) = 0
              THEN IF data.disabled[childNode] THEN <<>> ELSE <<childNode>>
              ELSE getLeafNodeIds_SkipDisabled(data.children[childNode]))
             \o getLeafNodeIds_SkipDisabled(Tail(nodes))

RECURSIVE getLeafNodeIds(_)
getLeafNodeIds(nodes) ==
    IF nodes = <<>> THEN <<>>
    ELSE LET childNode == Head(nodes)
         IN  (IF Len(data.children[childNode]) = 0
              THEN <<childNode>>
              ELSE getLeafNodeIds(data.children[childNode]))
             \o getLeafNodeIds(Tail(nodes))

RECURSIVE updateParentCheckStates_NoRecursion(_, _)
\* variant: the nodes of the list itself are updated, their children are not visited
updateParentCheckStates_NoRecursion(nodes, checkedSet) ==
    IF nodes = <<>> THEN checkedSet
    ELSE LET node == Head(nodes)
             after ==
                 IF Len(data.children[node]) > 0
                 THEN LET leafIds == getLeafNodeIds(data.children[node])
                      IN  IF \A i \in DOMAIN leafIds : leafIds[i] \in checkedSet
                          THEN checkedSet \cup {node} ELSE checkedSet \ {node}
                 ELSE checkedSet
         IN  updateParentCheckStates_NoRecursion(Tail(nodes), after)

RECURSIVE updateParentCheckStates_TopDownChildren(_, _)
\* variant: a parent is decided from its direct children, before they are updated
updateParentCheckStates_TopDownChildren(nodes, checkedSet) ==
    IF nodes = <<>> THEN checkedSet
    ELSE LET node == Head(nodes)
             kids == data.children[node]
             after ==
                 IF Len(kids) > 0
                 THEN LET own == IF \A i \in DOMAIN kids : kids[i] \in checkedSet
                                 THEN checkedSet \cup {node} ELSE checkedSet \ {node}
                      IN  updateParentCheckStates_TopDownChildren(kids, own)
                 ELSE checkedSet
         IN  updateParentCheckStates_TopDownChildren(Tail(nodes), after)

RECURSIVE updateParentCheckStates_NoLengthGuard(_, _)
\* variant: a node is decided from its leaves even when its children list is empty
updateParentCheckStates_NoLengthGuard(nodes, checkedSet) ==
    IF nodes = <<>> THEN checkedSet
    ELSE LET node == Head(nodes)
             below   == updateParentCheckStates_NoLengthGuard(data.children[node], checkedSet)
             leafIds == getLeafNodeIds(data.children[node])
             allLeavesChecked == \A i \in DOMAIN leafIds : leafIds[i] \in below
             after == IF allLeavesChecked THEN below \cup {node} ELSE below \ {node}
         IN  updateParentCheckStates_NoLengthGuard(Tail(nodes), after)

RECURSIVE updateParentCheckStates_NeverRemoves(_, _)
\* variant: a parent whose leaves are not all checked is left as it is
updateParentCheckStates_NeverRemoves(nodes, checkedSet) ==
    IF nodes = <<>> THEN checkedSet
    ELSE LET node == Head(nodes)
             after ==
                 IF Len(data.children[node]) > 0
                 THEN LET below   == updateParentCheckStates_NeverRemoves(data.children[node],
                                                                          checkedSet)
                          leafIds == getLeafNodeIds(data.children[node])
                          allLeavesChecked == \A i \in DOMAIN leafIds : leafIds[i] \in below
                      IN  IF allLeavesChecked THEN below \cup {node} ELSE below
                 ELSE checkedSet
         IN  updateParentCheckStates_NeverRemoves(Tail(nodes), after)

RECURSIVE updateParentCheckStates(_, _)
\* the checked set after the in-place update of checkedSet over nodes
updateParentCheckStates(nodes, checkedSet) ==
    IF nodes = <<>> THEN checkedSet
    ELSE LET node == Head(nodes)
             after ==
                 IF Len(data.children[node]) > 0
                 THEN LET below   == updateParentCheckStates(data.children[node], checkedSet)
                          leafIds == getLeafNodeIds(data.children[node])
                          allLeavesChecked == \A i \in DOMAIN leafIds : leafIds[i] \in below
                      IN  IF allLeavesChecked THEN below \cup {node} ELSE below \ {node}
                 ELSE checkedSet
         IN  updateParentCheckStates(Tail(nodes), after)

----------------------------------------------------------------------------
\* Tree root: derived (useMemo) values

expandedNodes == IF "expanded" \in supplied THEN expanded ELSE internalExpanded

RECURSIVE buildParentMap_PassesParentDown(_, _)
\* variant: the recursion hands down the parentId it received when it has one
buildParentMap_PassesParentDown(nodes, parentId) ==
    IF nodes = <<>> THEN {}
    ELSE LET node == Head(nodes)
         IN  (IF parentId # NoNode THEN {<<node, parentId>>} ELSE {})
             \cup buildParentMap_PassesParentDown(data.children[node],
                       IF parentId # NoNode THEN parentId ELSE node)
             \cup buildParentMap_PassesParentDown(Tail(nodes), parentId)

RECURSIVE buildParentMap_ExpandedOnly(_, _)
\* variant: the walk descends only into the children of expanded nodes
buildParentMap_ExpandedOnly(nodes, parentId) ==
    IF nodes = <<>> THEN {}
    ELSE LET node == Head(nodes)
         IN  (IF parentId # NoNode THEN {<<node, parentId>>} ELSE {})
             \cup (IF node \in expandedNodes
                   THEN buildParentMap_ExpandedOnly(data.children[node], node) ELSE {})
             \cup buildParentMap_ExpandedOnly(Tail(nodes), parentId)

RECURSIVE buildParentMap(_, _)
\* the (child, parent) entries set while walking nodes under parentId
buildParentMap(nodes, parentId) ==
    IF nodes = <<>> THEN {}
    ELSE LET node == Head(nodes)
         IN  (IF parentId # NoNode THEN {<<node, parentId>>} ELSE {})
             \cup buildParentMap(data.children[node], node)
             \cup buildParentMap(Tail(nodes), parentId)

parentNodeMap == buildParentMap(data.roots, NoNode)

\* parentNodeMap.get(id); NoNode for undefined
parentNodeMapGet(id) ==
    IF \E e \in parentNodeMap : e[1] = id
    THEN (CHOOSE e \in parentNodeMap : e[1] = id)[2]
    ELSE NoNode

RECURSIVE collectVisibleIds_IgnoreAncestors(_, _)
\* variant: children are walked whether or not their parent is expanded
collectVisibleIds_IgnoreAncestors(nodes, acc) ==
    IF nodes = <<>> THEN acc
    ELSE LET node == Head(nodes)
             a1 == [ids |-> Append(acc.ids, node),
                    disabledMap |-> IF data.disabled[node]
                                    THEN acc.disabledMap \cup {node}
                                    ELSE acc.disabledMap]
         IN  collectVisibleIds_IgnoreAncestors(Tail(nodes),
                 collectVisibleIds_IgnoreAncestors(data.children[node], a1))

RECURSIVE collectVisibleIds_DisabledLeavesOnly(_, _)
\* variant: the disabled flag is recorded only for nodes without children
collectVisibleIds_DisabledLeavesOnly(nodes, acc) ==
    IF nodes = <<>> THEN acc
    ELSE LET node == Head(nodes)
             a1 == [ids |-> Append(acc.ids, node),
                    disabledMap |-> IF data.disabled[node] /\ data.children[node] = <<>>
                                    THEN acc.disabledMap \cup {node}
                                    ELSE acc.disabledMap]
             a2 == IF node \in expandedNodes
                   THEN collectVisibleIds_DisabledLeavesOnly(data.children[node], a1)
                   ELSE a1
         IN  collectVisibleIds_DisabledLeavesOnly(Tail(nodes), a2)

RECURSIVE collectVisibleIds(_, _)
\* ids and disabledMap after walking nodes, starting from acc
collectVisibleIds(nodes, acc) ==
    IF nodes = <<>> THEN acc
    ELSE LET node == Head(nodes)
             a1 == [ids |-> Append(acc.ids, node),
                    disabledMap |-> IF data.disabled[node]
                                    THEN acc.disabledMap \cup {node}
                                    ELSE acc.disabledMap]
             a2 == IF node \in expandedNodes
                   THEN collectVisibleIds(data.children[node], a1)
                   ELSE a1
         IN  collectVisibleIds(Tail(nodes), a2)

visibleNodeIds == collectVisibleIds(data.roots, [ids |-> <<>>, disabledMap |-> {}]).ids

\* variant: the map is filled from the root level only
disabledNodesMap_RootsOnly == {id \in Range(data.roots) : data.disabled[id]}

disabledNodesMap ==
    collectVisibleIds(data.roots, [ids |-> <<>>, disabledMap |-> {}]).disabledMap

\* the ids whose element is mounted and registered through its ref callback
focusableNodes == Range(visibleNodeIds)

----------------------------------------------------------------------------
\* Tree item: derived values of one rendered node

isExpanded(id) == id \in expandedNodes

isSelected(id) == selectedNode = id

isChecked(id) ==
    IF enableBulkActions /\ "checkedNodes" \in supplied THEN id \in checkedNodes ELSE FALSE

isFirstNode(id) == Len(visibleNodeIds) > 0 /\ visibleNodeIds[1] = id

isLastFocused(id) == lastFocusedNodeId = id

isTabbable(id) == isLastFocused(id) \/ (lastFocusedNodeId = NoNode /\ isFirstNode(id))

tabIndex(id) == IF isDisabled(id) THEN -1 ELSE IF isTabbable(id) THEN 0 ELSE -1

\* visibleNodeIds.indexOf(id), 1-based; 0 when absent
indexOf(id) ==
    IF id \in Range(visibleNodeIds)
    THEN CHOOSE i \in DOMAIN visibleNodeIds :
            visibleNodeIds[i] = id /\ \A j \in 1..(i - 1) : visibleNodeIds[j] # id
    ELSE 0

allDescendantIds(id) ==
    IF hasChildren(id) THEN getAllDescendantIds(data.children[id]) ELSE <<>>

allLeafIds(id) ==
    IF hasChildren(id) THEN getLeafNodeIds(data.children[id]) ELSE <<>>

\* variant: only the checked leaves are handed to the group
localChildValues_LeavesOnly(id) ==
    IF ~hasChildren(id) \/ "checkedNodes" \notin supplied \/ ~enableBulkActions
    THEN <<>>
    ELSE SelectSeq(allLeafIds(id), LAMBDA d : d \in checkedNodes)

localChildValues(id) ==
    IF ~hasChildren(id) \/ "checkedNodes" \notin supplied \/ ~enableBulkActions
    THEN <<>>
    ELSE SelectSeq(allDescendantIds(id), LAMBDA d : d \in checkedNodes)

----------------------------------------------------------------------------
\* Effects of the context callbacks. Each handler below yields the calls it
\* makes as sets of at most one argument; Commit applies them.

\* variant: the change is handed on instead of the whole new set
handleToggleNode_Delta(nodeId) == {nodeId}

\* variant: opening a node closes every other one
handleToggleNode_ReplacesSet(nodeId) ==
    IF nodeId \in expandedNodes THEN {} ELSE {nodeId}

\* handleToggleNode: the set computed from expandedNodes
handleToggleNode(nodeId) ==
    IF nodeId \in expandedNodes THEN expandedNodes \ {nodeId}
    ELSE expandedNodes \cup {nodeId}

expandedIsControlled == "expanded" \in supplied /\ "onExpandedChange" \in supplied

\* variant: the handler keeps reading the checked set of the first render, the empty
\* one, instead of the set committed last
handleToggleChecked_StaleSet(id) ==
    IF "onCheckedNodesChange" \notin supplied \/ "checkedNodes" \notin supplied THEN {}
    ELSE LET desc == Range(allDescendantIds(id))
             currentSet == IF isChecked(id) THEN {} ELSE {id} \cup desc
         IN  {updateParentCheckStates(data.roots, currentSet)}

\* handleToggleChecked: the sets passed to onCheckedNodesChange (none on early return)
handleToggleChecked(id) ==
    IF "onCheckedNodesChange" \notin supplied \/ "checkedNodes" \notin supplied THEN {}
    ELSE LET desc == Range(allDescendantIds(id))
             currentSet == IF isChecked(id)
                           THEN (checkedNodes \ {id}) \ desc
                           ELSE (checkedNodes \cup {id}) \cup desc
         IN  {updateParentCheckStates(data.roots, currentSet)}

\* variant: the descendants are not removed before newValues are added
handleLocalCheckboxChange_KeepDescendants(id, newValues) ==
    IF "onCheckedNodesChange" \notin supplied \/ "checkedNodes" \notin supplied THEN {}
    ELSE {updateParentCheckStates(data.roots, checkedNodes \cup newValues)}

\* variant: the new set is built from newValues alone, not from the current set
handleLocalCheckboxChange_FromEmpty(id, newValues) ==
    IF "onCheckedNodesChange" \notin supplied \/ "checkedNodes" \notin supplied THEN {}
    ELSE {updateParentCheckStates(data.roots, newValues)}

\* handleLocalCheckboxChange: the sets passed to onCheckedNodesChange
handleLocalCheckboxChange(id, newValues) ==
    IF "onCheckedNodesChange" \notin supplied \/ "checkedNodes" \notin supplied THEN {}
    ELSE LET currentSet == (checkedNodes \ Range(allDescendantIds(id))) \cup newValues
         IN  {updateParentCheckStates(data.roots, currentSet)}

\* variant: the immediate-parent handler reconciles the whole tree before committing
useTreeCheckboxState_handleLocalCheckboxChange_Reconciles(id, newValues) ==
    IF "onCheckedNodesChange" \notin supplied \/ "checkedNodes" \notin supplied THEN {}
    ELSE LET currentSet == (checkedNodes \ Range(allDescendantIds(id))) \cup newValues
         IN  {updateParentCheckStates(data.roots, currentSet)}

\* handleLocalCheckboxChange of the immediate-parent Tree (useTreeCheckboxState): the
\* parent's own id is decided by comparing the number of new values with the number
\* of its leaves, and no other parent is touched
useTreeCheckboxState_handleLocalCheckboxChange(id, newValues) ==
    IF "onCheckedNodesChange" \notin supplied \/ "checkedNodes" \notin supplied THEN {}
    ELSE LET currentSet == (checkedNodes \ Range(allDescendantIds(id))) \cup newValues
         IN  {IF Cardinality(newValues) = Len(allLeafIds(id))
              THEN currentSet \cup {id} ELSE currentSet \ {id}}

Call(name, arg) == [cb |-> name, arg |-> arg]

\* variant: the controlled branch also stores the new set in internalExpanded
Commit_BothSinks(ev, tog, chk, sel, foc, selectFirst) ==
    LET newExpanded == handleToggleNode(CHOOSE n \in tog : TRUE)
        togCalls == IF tog = {} THEN <<>>
                    ELSE IF expandedIsControlled
                         THEN <<Call("onExpandedChange", newExpanded),
                                Call("setInternalExpanded", newExpanded)>>
                         ELSE <<Call("setInternalExpanded", newExpanded)>>
        selCalls == IF sel # {} /\ "onNodeSelect" \in supplied
                    THEN <<Call("onNodeSelect", sel)>> ELSE <<>>
        chkCalls == IF chk # {}
                    THEN <<Call("onCheckedNodesChange", CHOOSE s \in chk : TRUE)>> ELSE <<>>
    IN  /\ expanded' = IF tog # {} /\ expandedIsControlled THEN newExpanded ELSE expanded
        /\ internalExpanded' = IF tog # {} THEN newExpanded ELSE internalExpanded
        /\ checkedNodes' = IF chk # {} THEN CHOOSE s \in chk : TRUE ELSE checkedNodes
        /\ selectedNode' = IF sel # {} /\ "onNodeSelect" \in supplied
                           THEN CHOOSE n \in sel : TRUE ELSE selectedNode
        /\ lastFocusedNodeId' = IF foc # {} THEN CHOOSE n \in foc : TRUE
                                ELSE lastFocusedNodeId
        /\ emitted' = IF selectFirst THEN selCalls \o togCalls \o chkCalls
                      ELSE togCalls \o selCalls \o chkCalls
        /\ last' = ev
        /\ UNCHANGED config

\* tog: node ids passed to onToggleNode; chk: sets passed to onCheckedNodesChange;
\* sel: ids passed to onNodeSelect?.(); foc: ids passed to setLastFocusedNodeId.
\* The caller stores what its callbacks receive into the props it passes back.
Commit(ev, tog, chk, sel, foc, selectFirst) ==
    LET newExpanded == handleToggleNode(CHOOSE n \in tog : TRUE)
        togCalls == IF tog = {} THEN <<>>
                    ELSE IF expandedIsControlled
                         THEN <<Call("onExpandedChange", newExpanded)>>
                         ELSE <<Call("setInternalExpanded", newExpanded)>>
        selCalls == IF sel # {} /\ "onNodeSelect" \in supplied
                    THEN <<Call("onNodeSelect", sel)>> ELSE <<>>
        chkCalls == IF chk # {}
                    THEN <<Call("onCheckedNodesChange", CHOOSE s \in chk : TRUE)>> ELSE <<>>
    IN  /\ IF tog = {} THEN UNCHANGED <<expanded, internalExpanded>>
           ELSE IF expandedIsControlled
                THEN /\ expanded' = newExpanded
                     /\ UNCHANGED internalExpanded
                ELSE /\ internalExpanded' = newExpanded
                     /\ UNCHANGED expanded
        /\ checkedNodes' = IF chk # {} THEN CHOOSE s \in chk : TRUE ELSE checkedNodes
        /\ selectedNode' = IF sel # {} /\ "onNodeSelect" \in supplied
                           THEN CHOOSE n \in sel : TRUE ELSE selectedNode
        /\ lastFocusedNodeId' = IF foc # {} THEN CHOOSE n \in foc : TRUE
                                ELSE lastFocusedNodeId
        /\ emitted' = IF selectFirst THEN selCalls \o togCalls \o chkCalls
                      ELSE togCalls \o selCalls \o chkCalls
        /\ last' = ev
        /\ UNCHANGED config

Event(type, id, key, values) == [type |-> type, id |-> id, key |-> key, values |-> values]

Mounted(id) == id \in NodeIds /\ id \in focusableNodes

----------------------------------------------------------------------------
\* Keyboard navigation scans

\* variant: the next index is taken without the disabled check
scanDown_NoDisabledCheck(nextIndex) ==
    IF nextIndex > Len(visibleNodeIds) THEN NoNode ELSE visibleNodeIds[nextIndex]

\* variant: past the end of the list the loop starts again at its first id
scanDown_Wraps(nextIndex) ==
    LET i == IF nextIndex > Len(visibleNodeIds) THEN 1 ELSE nextIndex
        enabledFrom == {k \in i..Len(visibleNodeIds) : visibleNodeIds[k] \notin disabledNodesMap}
    IN  IF enabledFrom = {} THEN NoNode
        ELSE visibleNodeIds[CHOOSE k \in enabledFrom : \A m \in enabledFrom : k <= m]

RECURSIVE scanDown(_)
\* ArrowDown loop from nextIndex: the id focused, or NoNode
scanDown(nextIndex) ==
    IF nextIndex > Len(visibleNodeIds) THEN NoNode
    ELSE LET nextId == visibleNodeIds[nextIndex]
         IN  IF nextId \in disabledNodesMap THEN scanDown(nextIndex + 1)
             ELSE IF nextId \in focusableNodes THEN nextId
             ELSE scanDown(nextIndex + 1)

\* variant: the loop ends at the first disabled id instead of passing it
scanUp_StopsAtDisabled(prevIndex) ==
    IF prevIndex < 1 THEN NoNode
    ELSE IF visibleNodeIds[prevIndex] \in disabledNodesMap THEN NoNode
    ELSE visibleNodeIds[prevIndex]

RECURSIVE scanUp(_)
\* ArrowUp loop from prevIndex: the id focused, or NoNode
scanUp(prevIndex) ==
    IF prevIndex < 1 THEN NoNode
    ELSE LET prevId == visibleNodeIds[prevIndex]
         IN  IF prevId \in disabledNodesMap THEN scanUp(prevIndex - 1)
             ELSE IF prevId \in focusableNodes THEN prevId
             ELSE scanUp(prevIndex - 1)

\* ArrowLeft on a collapsed node or a leaf: the parent focused, or NoNode
focusParent(id) ==
    LET parentId == parentNodeMapGet(id)
    IN  IF parentId # NoNode /\ parentId \in focusableNodes THEN parentId ELSE NoNode

Opt(id) == IF id = NoNode THEN {} ELSE {id}

Keys == {" ", "Enter", "ArrowRight", "ArrowLeft", "ArrowDown", "ArrowUp", "Home", "End"}

----------------------------------------------------------------------------
\* Events

\* onFocus of a node's row element
Focus(id) ==
    /\ Mounted(id)
    /\ Commit(Event("focus", id, "", {}), {}, {}, {}, {id}, FALSE)

\* variant: outside bulk mode Space and Enter select only a node without children
handleKeyDown_SelectOnlyLeaves(id, key) ==
    /\ Mounted(id)
    /\ LET ev == Event("keydown", id, key, {})
           currentIndex == indexOf(id)
       IN  IF isDisabled(id) THEN Commit(ev, {}, {}, {}, {}, FALSE)
           ELSE CASE key = " " ->
                     IF enableBulkActions
                     THEN Commit(ev, {}, handleToggleChecked(id), {}, {}, FALSE)
                     ELSE Commit(ev, IF hasChildren(id) THEN {id} ELSE {}, {},
                                 IF ~hasChildren(id) /\ ~disableSelection THEN {id} ELSE {},
                                 {}, FALSE)
                  [] key = "Enter" ->
                     IF enableBulkActions
                     THEN IF hasChildren(id)
                          THEN Commit(ev, {id}, {}, {}, {}, FALSE)
                          ELSE Commit(ev, {}, handleToggleChecked(id), {}, {}, FALSE)
                     ELSE Commit(ev, IF hasChildren(id) THEN {id} ELSE {}, {},
                                 IF ~hasChildren(id) /\ ~disableSelection THEN {id} ELSE {},
                                 {}, FALSE)
                  [] key = "ArrowRight" ->
                     Commit(ev, IF hasChildren(id) /\ ~isExpanded(id) THEN {id} ELSE {},
                            {}, {}, {}, FALSE)
                  [] key = "ArrowLeft" ->
                     IF hasChildren(id) /\ isExpanded(id)
                     THEN Commit(ev, {id}, {}, {}, {}, FALSE)
                     ELSE Commit(ev, {}, {}, {}, Opt(focusParent(id)), FALSE)
                  [] key = "ArrowDown" ->
                     Commit(ev, {}, {}, {}, Opt(scanDown(currentIndex + 1)), FALSE)
                  [] key = "ArrowUp" ->
                     Commit(ev, {}, {}, {}, Opt(scanUp(currentIndex - 1)), FALSE)
                  [] key = "Home" ->
                     Commit(ev, {}, {}, {}, Opt(scanDown(1)), FALSE)
                  [] key = "End" ->
                     Commit(ev, {}, {}, {}, Opt(scanUp(Len(visibleNodeIds))), FALSE)

\* variant: ArrowRight toggles a parent whether or not it is expanded
handleKeyDown_ArrowRightToggles(id, key) ==
    /\ Mounted(id)
    /\ LET ev == Event("keydown", id, key, {})
           currentIndex == indexOf(id)
       IN  IF isDisabled(id) THEN Commit(ev, {}, {}, {}, {}, FALSE)
           ELSE CASE key = " " ->
                     IF enableBulkActions
                     THEN Commit(ev, {}, handleToggleChecked(id), {}, {}, FALSE)
                     ELSE Commit(ev, IF hasChildren(id) THEN {id} ELSE {}, {},
                                 IF ~disableSelection THEN {id} ELSE {}, {}, FALSE)
                  [] key = "Enter" ->
                     IF enableBulkActions
                     THEN IF hasChildren(id)
                          THEN Commit(ev, {id}, {}, {}, {}, FALSE)
                          ELSE Commit(ev, {}, handleToggleChecked(id), {}, {}, FALSE)
                     ELSE Commit(ev, IF hasChildren(id) THEN {id} ELSE {}, {},
                                 IF ~disableSelection THEN {id} ELSE {}, {}, FALSE)
                  [] key = "ArrowRight" ->
                     Commit(ev, IF hasChildren(id) THEN {id} ELSE {},
                            {}, {}, {}, FALSE)
                  [] key = "ArrowLeft" ->
                     IF hasChildren(id) /\ isExpanded(id)
                     THEN Commit(ev, {id}, {}, {}, {}, FALSE)
                     ELSE Commit(ev, {}, {}, {}, Opt(focusParent(id)), FALSE)
                  [] key = "ArrowDown" ->
                     Commit(ev, {}, {}, {}, Opt(scanDown(currentIndex + 1)), FALSE)
                  [] key = "ArrowUp" ->
                     Commit(ev, {}, {}, {}, Opt(scanUp(currentIndex - 1)), FALSE)
                  [] key = "Home" ->
                     Commit(ev, {}, {}, {}, Opt(scanDown(1)), FALSE)
                  [] key = "End" ->
                     Commit(ev, {}, {}, {}, Opt(scanUp(Len(visibleNodeIds))), FALSE)

\* variant: in bulk mode Space on a parent expands or collapses it, as Enter does
handleKeyDown_SpaceLikeEnter(id, key) ==
    /\ Mounted(id)
    /\ LET ev == Event("keydown", id, key, {})
           currentIndex == indexOf(id)
       IN  IF isDisabled(id) THEN Commit(ev, {}, {}, {}, {}, FALSE)
           ELSE CASE key = " " ->
                     IF enableBulkActions
                     THEN IF hasChildren(id)
                          THEN Commit(ev, {id}, {}, {}, {}, FALSE)
                          ELSE Commit(ev, {}, handleToggleChecked(id), {}, {}, FALSE)
                     ELSE Commit(ev, IF hasChildren(id) THEN {id} ELSE {}, {},
                                 IF ~disableSelection THEN {id} ELSE {}, {}, FALSE)
                  [] key = "Enter" ->
                     IF enableBulkActions
                     THEN IF hasChildren(id)
                          THEN Commit(ev, {id}, {}, {}, {}, FALSE)
                          ELSE Commit(ev, {}, handleToggleChecked(id), {}, {}, FALSE)
                     ELSE Commit(ev, IF hasChildren(id) THEN {id} ELSE {}, {},
                                 IF ~disableSelection THEN {id} ELSE {}, {}, FALSE)
                  [] key = "ArrowRight" ->
                     Commit(ev, IF hasChildren(id) /\ ~isExpanded(id) THEN {id} ELSE {},
                            {}, {}, {}, FALSE)
                  [] key = "ArrowLeft" ->
                     IF hasChildren(id) /\ isExpanded(id)
                     THEN Commit(ev, {id}, {}, {}, {}, FALSE)
                     ELSE Commit(ev, {}, {}, {}, Opt(focusParent(id)), FALSE)
                  [] key = "ArrowDown" ->
                     Commit(ev, {}, {}, {}, Opt(scanDown(currentIndex + 1)), FALSE)
                  [] key = "ArrowUp" ->
                     Commit(ev, {}, {}, {}, Opt(scanUp(currentIndex - 1)), FALSE)
                  [] key = "Home" ->
                     Commit(ev, {}, {}, {}, Opt(scanDown(1)), FALSE)
                  [] key = "End" ->
                     Commit(ev, {}, {}, {}, Opt(scanUp(Len(visibleNodeIds))), FALSE)

\* variant: ArrowLeft on a leaf or a collapsed node collapses its parent and leaves the
\* focus where it is
handleKeyDown_ArrowLeftCollapsesParent(id, key) ==
    /\ Mounted(id)
    /\ LET ev == Event("keydown", id, key, {})
           currentIndex == indexOf(id)
       IN  IF isDisabled(id) THEN Commit(ev, {}, {}, {}, {}, FALSE)
           ELSE CASE key = " " ->
                     IF enableBulkActions
                     THEN Commit(ev, {}, handleToggleChecked(id), {}, {}, FALSE)
                     ELSE Commit(ev, IF hasChildren(id) THEN {id} ELSE {}, {},
                                 IF ~disableSelection THEN {id} ELSE {}, {}, FALSE)
                  [] key = "Enter" ->
                     IF enableBulkActions
                     THEN IF hasChildren(id)
                          THEN Commit(ev, {id}, {}, {}, {}, FALSE)
                          ELSE Commit(ev, {}, handleToggleChecked(id), {}, {}, FALSE)
                     ELSE Commit(ev, IF hasChildren(id) THEN {id} ELSE {}, {},
                                 IF ~disableSelection THEN {id} ELSE {}, {}, FALSE)
                  [] key = "ArrowRight" ->
                     Commit(ev, IF hasChildren(id) /\ ~isExpanded(id) THEN {id} ELSE {},
                            {}, {}, {}, FALSE)
                  [] key = "ArrowLeft" ->
                     IF hasChildren(id) /\ isExpanded(id)
                     THEN Commit(ev, {id}, {}, {}, {}, FALSE)
                     ELSE Commit(ev, Opt(focusParent(id)), {}, {}, {}, FALSE)
                  [] key = "ArrowDown" ->
                     Commit(ev, {}, {}, {}, Opt(scanDown(currentIndex + 1)), FALSE)
                  [] key = "ArrowUp" ->
                     Commit(ev, {}, {}, {}, Opt(scanUp(currentIndex - 1)), FALSE)
                  [] key = "Home" ->
                     Commit(ev, {}, {}, {}, Opt(scanDown(1)), FALSE)
                  [] key = "End" ->
                     Commit(ev, {}, {}, {}, Opt(scanUp(Len(visibleNodeIds))), FALSE)

\* handleKeyDown
handleKeyDown(id, key) ==
    /\ Mounted(id)
    /\ LET ev == Event("keydown", id, key, {})
           currentIndex == indexOf(id)
       IN  IF isDisabled(id) THEN Commit(ev, {}, {}, {}, {}, FALSE)
           ELSE CASE key = " " ->
                     IF enableBulkActions
                     THEN Commit(ev, {}, handleToggleChecked(id), {}, {}, FALSE)
                     ELSE Commit(ev, IF hasChildren(id) THEN {id} ELSE {}, {},
                                 IF ~disableSelection THEN {id} ELSE {}, {}, FALSE)
                  [] key = "Enter" ->
                     IF enableBulkActions
                     THEN IF hasChildren(id)
                          THEN Commit(ev, {id}, {}, {}, {}, FALSE)
                          ELSE Commit(ev, {}, handleToggleChecked(id), {}, {}, FALSE)
                     ELSE Commit(ev, IF hasChildren(id) THEN {id} ELSE {}, {},
                                 IF ~disableSelection THEN {id} ELSE {}, {}, FALSE)
                  [] key = "ArrowRight" ->
                     Commit(ev, IF hasChildren(id) /\ ~isExpanded(id) THEN {id} ELSE {},
                            {}, {}, {}, FALSE)
                  [] key = "ArrowLeft" ->
                     IF hasChildren(id) /\ isExpanded(id)
                     THEN Commit(ev, {id}, {}, {}, {}, FALSE)
                     ELSE Commit(ev, {}, {}, {}, Opt(focusParent(id)), FALSE)
                  [] key = "ArrowDown" ->
                     Commit(ev, {}, {}, {}, Opt(scanDown(currentIndex + 1)), FALSE)
                  [] key = "ArrowUp" ->
                     Commit(ev, {}, {}, {}, Opt(scanUp(currentIndex - 1)), FALSE)
                  [] key = "Home" ->
                     Commit(ev, {}, {}, {}, Opt(scanDown(1)), FALSE)
                  [] key = "End" ->
                     Commit(ev, {}, {}, {}, Opt(scanUp(Len(visibleNodeIds))), FALSE)

\* variant: the selection branch does not look at disableSelection
handleClick_IgnoresDisableSelection(id) ==
    /\ Mounted(id)
    /\ ~hasChildren(id)
    /\ LET ev == Event("click", id, "", {})
       IN  IF isDisabled(id) THEN Commit(ev, {}, {}, {}, {}, FALSE)
           ELSE IF enableBulkActions
                THEN Commit(ev, {}, handleToggleChecked(id), {}, {}, FALSE)
                ELSE Commit(ev, {}, {}, {id}, {}, FALSE)

\* variant: the selection branch is not an else of the bulk branch
handleClick_SelectsInBulk(id) ==
    /\ Mounted(id)
    /\ ~hasChildren(id)
    /\ LET ev == Event("click", id, "", {})
       IN  IF isDisabled(id) THEN Commit(ev, {}, {}, {}, {}, FALSE)
           ELSE Commit(ev, {}, IF enableBulkActions THEN handleToggleChecked(id) ELSE {},
                       IF ~disableSelection THEN {id} ELSE {}, {}, FALSE)

\* handleClick, as bound to a leaf row
handleClick(id) ==
    /\ Mounted(id)
    /\ ~hasChildren(id)
    /\ LET ev == Event("click", id, "", {})
       IN  IF isDisabled(id) THEN Commit(ev, {}, {}, {}, {}, FALSE)
           ELSE IF enableBulkActions
                THEN Commit(ev, {}, handleToggleChecked(id), {}, {}, FALSE)
                ELSE Commit(ev, {}, {}, IF ~disableSelection THEN {id} ELSE {}, {}, FALSE)

\* variant: the parent row's click runs handleClick, as a leaf row's does
bulkParentClick_TogglesChecked(id) ==
    /\ Mounted(id)
    /\ hasChildren(id)
    /\ enableBulkActions
    /\ Commit(Event("click", id, "", {}), {},
              IF ~isDisabled(id) THEN handleToggleChecked(id) ELSE {}, {}, {}, FALSE)

\* variant: the parent row's click in bulk mode selects the node as well
bulkParentClick_AlsoSelects(id) ==
    /\ Mounted(id)
    /\ hasChildren(id)
    /\ enableBulkActions
    /\ Commit(Event("click", id, "", {}), IF ~isDisabled(id) THEN {id} ELSE {}, {},
              IF ~isDisabled(id) THEN {id} ELSE {}, {}, TRUE)

\* onClick of a parent row in bulk mode
bulkParentClick(id) ==
    /\ Mounted(id)
    /\ hasChildren(id)
    /\ enableBulkActions
    /\ Commit(Event("click", id, "", {}), IF ~isDisabled(id) THEN {id} ELSE {}, {}, {}, {}, FALSE)

\* onClick of the Collapsible.Trigger of a parent row (navigation mode): handleClick
\* runs first, then the trigger toggles the collapsible, which calls onOpenChange
triggerClick(id) ==
    /\ Mounted(id)
    /\ hasChildren(id)
    /\ ~enableBulkActions
    /\ Commit(Event("click", id, "", {}),
              IF ~isDisabled(id) THEN {id} ELSE {}, {},
              IF ~isDisabled(id) /\ ~disableSelection THEN {id} ELSE {}, {}, TRUE)

\* variant: the open change toggles without looking at isDisabled
onOpenChange_NoDisabledGuard(id) ==
    /\ Mounted(id)
    /\ hasChildren(id)
    /\ Commit(Event("openChange", id, "", {}), {id}, {}, {}, {}, FALSE)

\* BaseCollapsible.Root onOpenChange
onOpenChange(id) ==
    /\ Mounted(id)
    /\ hasChildren(id)
    /\ Commit(Event("openChange", id, "", {}), IF ~isDisabled(id) THEN {id} ELSE {},
              {}, {}, {}, FALSE)

\* onClick of the span around the parent checkbox (bulk mode)
checkboxClick(id) ==
    /\ Mounted(id)
    /\ hasChildren(id)
    /\ enableBulkActions
    /\ Commit(Event("checkboxClick", id, "", {}), {}, handleToggleChecked(id), {}, {}, FALSE)

\* CheckboxGroup onValueChange of a parent (bulk mode), with any group value
onValueChange(id) ==
    /\ Mounted(id)
    /\ hasChildren(id)
    /\ enableBulkActions
    /\ \E newValues \in SUBSET Range(allDescendantIds(id)) :
          Commit(Event("valueChange", id, "", newValues), {},
                 handleLocalCheckboxChange(id, newValues), {}, {}, FALSE)

\* the ids onToggleNode is called with: those of the largest tree and one more
ToggleIds == 1..(MaxNavNodes + 1)

\* context.onToggleNode called with any id, of a parent, a leaf or no node at all
onToggleNode(nodeId) ==
    /\ nodeId \in ToggleIds
    /\ Commit(Event("toggle", nodeId, "", {}), {nodeId}, {}, {}, {}, FALSE)

\* CheckboxGroup onValueChange of a parent of the immediate-parent Tree, with any
\* group value; enableBulkActions stands for that Tree's showCheckboxes prop
useTreeCheckboxState_onValueChange(id) ==
    /\ Mounted(id)
    /\ hasChildren(id)
    /\ enableBulkActions
    /\ \E newValues \in SUBSET Range(allDescendantIds(id)) :
          Commit(Event("valueChange", id, "", newValues), {},
                 useTreeCheckboxState_handleLocalCheckboxChange(id, newValues), {}, {}, FALSE)

----------------------------------------------------------------------------
\* Specifications

Mount == Event("mount", NoNode, "", {})

AllIds == 1..MaxNodes

\* Bulk mode, every node visible: the checked-state operations
InitChecked ==
    /\ data \in Trees(MaxNodes, MaxCheckedDisabled)
    /\ expanded = {}
    /\ internalExpanded = NodeIds
    /\ checkedNodes \in SUBSET NodeIds
    /\ selectedNode = NoNode
    /\ lastFocusedNodeId = NoNode
    /\ supplied = {"checkedNodes", "onCheckedNodesChange"}
    /\ enableBulkActions = TRUE
    /\ disableSelection = TRUE
    /\ emitted = <<>>
    /\ last = Mount

NextChecked ==
    \/ \E id \in AllIds : handleKeyDown(id, " ")
    \/ \E id \in AllIds : handleClick(id)
    \/ \E id \in AllIds : checkboxClick(id)
    \/ \E id \in AllIds : onValueChange(id)

SpecChecked == InitChecked /\ [][NextChecked]_vars

\* Navigation mode, expansion owned by the tree, any defaultExpanded among the parents
InitNav ==
    /\ data \in Trees(MaxNavNodes, MaxDisabled)
    /\ expanded = {}
    /\ internalExpanded \in SUBSET {id \in NodeIds : hasChildren(id)}
    /\ checkedNodes = {}
    /\ selectedNode = NoNode
    /\ lastFocusedNodeId = NoNode
    /\ supplied = {}
    /\ enableBulkActions = FALSE
    /\ disableSelection = TRUE
    /\ emitted = <<>>
    /\ last = Mount

NextNav ==
    \/ \E id \in AllIds : Focus(id)
    \/ \E id \in AllIds : \E key \in Keys : handleKeyDown(id, key)
    \/ \E id \in AllIds : onOpenChange(id)

SpecNav == InitNav /\ [][NextNav]_vars

\* Either mode, selection enabled or not, all callbacks supplied, nothing checked or
\* selected at mount, expansion owned by the tree
Init ==
    /\ data \in Trees(MaxNavNodes, MaxDisabled)
    /\ expanded = {}
    /\ internalExpanded \in SUBSET {id \in NodeIds : hasChildren(id)}
    /\ checkedNodes = {}
    /\ selectedNode = NoNode
    /\ lastFocusedNodeId = NoNode
    /\ supplied = {"checkedNodes", "onCheckedNodesChange", "onNodeSelect"}
    /\ enableBulkActions \in BOOLEAN
    /\ disableSelection \in BOOLEAN
    /\ emitted = <<>>
    /\ last = Mount

Next ==
    \/ \E id \in AllIds : Focus(id)
    \/ \E id \in AllIds : \E key \in Keys : handleKeyDown(id, key)
    \/ \E id \in AllIds : handleClick(id)
    \/ \E id \in AllIds : bulkParentClick(id)
    \/ \E id \in AllIds : triggerClick(id)
    \/ \E id \in AllIds : onOpenChange(id)
    \/ \E id \in AllIds : checkboxClick(id)
    \/ \E id \in AllIds : onValueChange(id)

Spec == Init /\ [][Next]_vars

\* Any props at mount: mode, defaultExpanded among the parents, checkedNodes in bulk
\* mode, selectedNode and the selection flag in navigation mode
InitDisabled ==
    /\ data \in Trees(MaxNavNodes, MaxDisabled)
    /\ expanded = {}
    /\ internalExpanded \in SUBSET {id \in NodeIds : hasChildren(id)}
    /\ enableBulkActions \in BOOLEAN
    /\ disableSelection \in (IF enableBulkActions THEN {FALSE} ELSE BOOLEAN)
    /\ checkedNodes \in (IF enableBulkActions THEN SUBSET NodeIds ELSE {{}})
    /\ selectedNode \in (IF enableBulkActions THEN {NoNode} ELSE NodeIds \cup {NoNode})
    /\ lastFocusedNodeId = NoNode
    /\ supplied = {"checkedNodes", "onCheckedNodesChange", "onNodeSelect"}
    /\ emitted = <<>>
    /\ last = Mount

\* Focus anywhere; keys, row clicks and open changes delivered to disabled nodes
NextDisabled ==
    \/ \E id \in AllIds : Focus(id)
    \/ \E id \in AllIds : \E key \in Keys :
          id \in NodeIds /\ data.disabled[id] /\ handleKeyDown(id, key)
    \/ \E id \in AllIds : id \in NodeIds /\ data.disabled[id] /\ handleClick(id)
    \/ \E id \in AllIds : id \in NodeIds /\ data.disabled[id] /\ bulkParentClick(id)
    \/ \E id \in AllIds : id \in NodeIds /\ data.disabled[id] /\ triggerClick(id)
    \/ \E id \in AllIds : id \in NodeIds /\ data.disabled[id] /\ onOpenChange(id)

SpecDisabled == InitDisabled /\ [][NextDisabled]_vars

\* Bulk mode: any defaultExpanded among the parents, any checkedNodes, the
\* selection flag either way, the first root selected by the caller
InitBulk ==
    /\ data \in Trees(MaxNavNodes, MaxDisabled)
    /\ expanded = {}
    /\ internalExpanded \in SUBSET {id \in NodeIds : hasChildren(id)}
    /\ checkedNodes \in SUBSET NodeIds
    /\ selectedNode = 1
    /\ lastFocusedNodeId = NoNode
    /\ supplied = {"checkedNodes", "onCheckedNodesChange", "onNodeSelect"}
    /\ enableBulkActions = TRUE
    /\ disableSelection \in BOOLEAN
    /\ emitted = <<>>
    /\ last = Mount

ActivateKeys == {" ", "Enter"}

\* Space and Enter, row clicks, clicks on a parent's checkbox and checkbox-group changes
NextBulk ==
    \/ \E id \in AllIds : \E key \in ActivateKeys : handleKeyDown(id, key)
    \/ \E id \in AllIds : handleClick(id)
    \/ \E id \in AllIds : bulkParentClick(id)
    \/ \E id \in AllIds : checkboxClick(id)
    \/ \E id \in AllIds : onValueChange(id)

SpecBulk == InitBulk /\ [][NextBulk]_vars

\* Navigation mode with selection: onNodeSelect supplied, the flag either way, the
\* first root selected by the caller or nothing selected
InitSelect ==
    /\ data \in Trees(MaxNavNodes, MaxDisabled)
    /\ expanded = {}
    /\ internalExpanded \in SUBSET {id \in NodeIds : hasChildren(id)}
    /\ checkedNodes = {}
    /\ selectedNode \in {NoNode, 1}
    /\ lastFocusedNodeId = NoNode
    /\ supplied = {"onNodeSelect"}
    /\ enableBulkActions = FALSE
    /\ disableSelection \in BOOLEAN
    /\ emitted = <<>>
    /\ last = Mount

\* Key presses, clicks on leaf rows and on parent triggers
NextSelect ==
    \/ \E id \in AllIds : \E key \in Keys : handleKeyDown(id, key)
    \/ \E id \in AllIds : handleClick(id)
    \/ \E id \in AllIds : triggerClick(id)

SpecSelect == InitSelect /\ [][NextSelect]_vars

\* Every combination of the expanded and onExpandedChange props being supplied or
\* omitted, either mode, selection enabled; any expanded value and any defaultExpanded
\* among the parents
InitExpansion ==
    /\ data \in Trees(MaxNavNodes, MaxCheckedDisabled)
    /\ supplied \in {{"checkedNodes", "onCheckedNodesChange", "onNodeSelect"} \cup x :
                        x \in SUBSET {"expanded", "onExpandedChange"}}
    /\ expanded \in (IF "expanded" \in supplied
                     THEN SUBSET {id \in NodeIds : hasChildren(id)} ELSE {{}})
    /\ internalExpanded \in SUBSET {id \in NodeIds : hasChildren(id)}
    /\ checkedNodes = {}
    /\ selectedNode = NoNode
    /\ lastFocusedNodeId = NoNode
    /\ enableBulkActions \in BOOLEAN
    /\ disableSelection = FALSE
    /\ emitted = <<>>
    /\ last = Mount

\* The events that can reach onToggleNode, onNodeSelect or handleToggleChecked
NextExpansion ==
    \/ \E id \in AllIds : \E key \in ActivateKeys : handleKeyDown(id, key)
    \/ \E id \in AllIds : handleClick(id)
    \/ \E id \in AllIds : bulkParentClick(id)
    \/ \E id \in AllIds : triggerClick(id)
    \/ \E id \in AllIds : onOpenChange(id)
    \/ \E id \in AllIds : checkboxClick(id)

SpecExpansion == InitExpansion /\ [][NextExpansion]_vars

\* Bulk mode with parents expanded or collapsed: any defaultExpanded among the
\* parents, any checkedNodes
InitCheckedExpansion ==
    /\ data \in Trees(MaxNavNodes, MaxCheckedDisabled)
    /\ expanded = {}
    /\ internalExpanded \in SUBSET {id \in NodeIds : hasChildren(id)}
    /\ checkedNodes \in SUBSET NodeIds
    /\ selectedNode = NoNode
    /\ lastFocusedNodeId = NoNode
    /\ supplied = {"checkedNodes", "onCheckedNodesChange"}
    /\ enableBulkActions = TRUE
    /\ disableSelection = TRUE
    /\ emitted = <<>>
    /\ last = Mount

\* Row clicks (a parent's toggles its expansion, a leaf's its checked state), clicks on
\* a parent's checkbox and checkbox-group changes
NextCheckedExpansion ==
    \/ \E id \in AllIds : handleClick(id)
    \/ \E id \in AllIds : bulkParentClick(id)
    \/ \E id \in AllIds : checkboxClick(id)
    \/ \E id \in AllIds : onValueChange(id)

SpecCheckedExpansion == InitCheckedExpansion /\ [][NextCheckedExpansion]_vars

\* Bulk mode with any combination of checkedNodes and onCheckedNodesChange supplied;
\* an omitted checkedNodes prop is undefined and reads as no id checked
InitUnconfigured ==
    /\ data \in Trees(MaxNavNodes, MaxCheckedDisabled)
    /\ expanded = {}
    /\ internalExpanded \in SUBSET {id \in NodeIds : hasChildren(id)}
    /\ supplied \in SUBSET {"checkedNodes", "onCheckedNodesChange"}
    /\ checkedNodes \in (IF "checkedNodes" \in supplied THEN SUBSET NodeIds ELSE {{}})
    /\ selectedNode = NoNode
    /\ lastFocusedNodeId = NoNode
    /\ enableBulkActions = TRUE
    /\ disableSelection = TRUE
    /\ emitted = <<>>
    /\ last = Mount

\* The events that reach handleToggleChecked or handleLocalCheckboxChange
NextUnconfigured ==
    \/ \E id \in AllIds : handleKeyDown(id, " ")
    \/ \E id \in AllIds : handleClick(id)
    \/ \E id \in AllIds : checkboxClick(id)
    \/ \E id \in AllIds : onValueChange(id)

SpecUnconfigured == InitUnconfigured /\ [][NextUnconfigured]_vars

\* Expansion controlled or not: the toggle operation on any id
InitToggle ==
    /\ data \in Trees(MaxNavNodes, MaxDisabled)
    /\ supplied \in {{"checkedNodes", "onCheckedNodesChange", "onNodeSelect"} \cup x :
                        x \in SUBSET {"expanded", "onExpandedChange"}}
    /\ expanded \in (IF "expanded" \in supplied
                     THEN SUBSET {id \in NodeIds : hasChildren(id)} ELSE {{}})
    /\ internalExpanded \in SUBSET {id \in NodeIds : hasChildren(id)}
    /\ checkedNodes = NodeIds
    /\ selectedNode = 1
    /\ lastFocusedNodeId = NoNode
    /\ enableBulkActions = TRUE
    /\ disableSelection = FALSE
    /\ emitted = <<>>
    /\ last = Mount

NextToggle == \E nodeId \in ToggleIds : onToggleNode(nodeId)

SpecToggle == InitToggle /\ [][NextToggle]_vars

\* Both modes, selection enabled or disabled: every key press and click on a node
InitDispatch ==
    /\ data \in Trees(MaxNavNodes, MaxCheckedDisabled)
    /\ expanded = {}
    /\ internalExpanded \in SUBSET {id \in NodeIds : hasChildren(id)}
    /\ checkedNodes = {}
    /\ selectedNode = NoNode
    /\ lastFocusedNodeId = NoNode
    /\ supplied = {"checkedNodes", "onCheckedNodesChange", "onNodeSelect"}
    /\ enableBulkActions \in BOOLEAN
    /\ disableSelection \in BOOLEAN
    /\ emitted = <<>>
    /\ last = Mount

\* one key of each kind of case in handleKeyDown
DispatchKeys == {" ", "Enter", "ArrowRight", "ArrowLeft", "ArrowDown", "ArrowUp"}

NextDispatch ==
    \/ \E id \in AllIds : \E key \in DispatchKeys : handleKeyDown(id, key)
    \/ \E id \in AllIds : handleClick(id)
    \/ \E id \in AllIds : bulkParentClick(id)
    \/ \E id \in AllIds : triggerClick(id)

SpecDispatch == InitDispatch /\ [][NextDispatch]_vars

\* The immediate-parent Tree with checkboxes shown, every node visible
InitImmediate ==
    /\ data \in Trees(MaxNodes, MaxCheckedDisabled)
    /\ expanded = {}
    /\ internalExpanded = NodeIds
    /\ checkedNodes \in SUBSET NodeIds
    /\ selectedNode = NoNode
    /\ lastFocusedNodeId = NoNode
    /\ supplied = {"checkedNodes", "onCheckedNodesChange"}
    /\ enableBulkActions = TRUE
    /\ disableSelection = TRUE
    /\ emitted = <<>>
    /\ last = Mount

NextImmediate == \E id \in AllIds : useTreeCheckboxState_onValueChange(id)

SpecImmediate == InitImmediate /\ [][NextImmediate]_vars

\* Keyboard only, uncontrolled expansion, both modes: the focus starts on a visible
\* enabled node and every key is pressed on the node that has the focus
InitKeyboard ==
    /\ data \in Trees(MaxNavNodes, MaxDisabled)
    /\ expanded = {}
    /\ internalExpanded \in SUBSET {id \in NodeIds : hasChildren(id)}
    /\ checkedNodes = {}
    /\ selectedNode = NoNode
    /\ supplied = {"checkedNodes", "onCheckedNodesChange", "onNodeSelect"}
    /\ lastFocusedNodeId \in {id \in Range(visibleNodeIds) : ~isDisabled(id)}
    /\ enableBulkActions \in BOOLEAN
    /\ disableSelection = FALSE
    /\ emitted = <<>>
    /\ last = Mount

NextKeyboard == \E key \in Keys : handleKeyDown(lastFocusedNodeId, key)

SpecKeyboard == InitKeyboard /\ [][NextKeyboard]_vars

\* A traversal by keyboard with the expanded set fixed: Home and then ArrowDown over and
\* over, or End and then ArrowUp over and over, each key pressed on the focused node
InitTraverse ==
    /\ data \in Trees(MaxNavNodes, MaxDisabled)
    /\ expanded = {}
    /\ internalExpanded \in SUBSET {id \in NodeIds : hasChildren(id)}
    /\ checkedNodes = {}
    /\ selectedNode = NoNode
    /\ supplied = {}
    /\ lastFocusedNodeId \in {id \in Range(visibleNodeIds) : ~isDisabled(id)}
    /\ enableBulkActions = FALSE
    /\ disableSelection = TRUE
    /\ emitted = <<>>
    /\ last = Mount

pressHome == last = Mount /\ handleKeyDown(lastFocusedNodeId, "Home")

pressArrowDown ==
    /\ last.type = "keydown" /\ last.key \in {"Home", "ArrowDown"}
    /\ handleKeyDown(lastFocusedNodeId, "ArrowDown")

pressEnd == last = Mount /\ handleKeyDown(lastFocusedNodeId, "End")

pressArrowUp ==
    /\ last.type = "keydown" /\ last.key \in {"End", "ArrowUp"}
    /\ handleKeyDown(lastFocusedNodeId, "ArrowUp")

NextTraverse == pressHome \/ pressArrowDown \/ pressEnd \/ pressArrowUp

\* the user keeps pressing the next key of the traversal
SpecTraverse == InitTraverse /\ [][NextTraverse]_vars /\ WF_vars(NextTraverse)

----------------------------------------------------------------------------
\* Tree relations used to state the properties, read off the children arrays

ParentOf(id) ==
    IF \E p \in NodeIds : id \in Range(data.children[p])
    THEN CHOOSE p \in NodeIds : id \in Range(data.children[p])
    ELSE NoNode

RECURSIVE Ancestors(_)
Ancestors(id) ==
    IF ParentOf(id) = NoNode THEN {} ELSE {ParentOf(id)} \cup Ancestors(ParentOf(id))

Descendants(id) == {d \in NodeIds : id \in Ancestors(d)}

IsLeaf(id) == data.children[id] = <<>>

LeafDescendants(id) == {d \in Descendants(id) : IsLeaf(d)}

Parents == {p \in NodeIds : ~IsLeaf(p)}

\* the parents whose leaf descendants all lie in S, together with the leaves of S
Reconciled(S) ==
    {x \in S : x \notin Parents} \cup {p \in Parents : LeafDescendants(p) \subseteq S}

CheckedCommitted ==
    emitted # <<>> /\ emitted[Len(emitted)].cb = "onCheckedNodesChange"

ToggleEvents == {"keydown", "click", "checkboxClick"}

HasNestedParent == \E p \in Parents : ParentOf(p) # NoNode

----------------------------------------------------------------------------
\* C1: after a toggleNode or setLocalGroup operation has committed, a node with
\* children is in the checked set iff every leaf descendant of it is.
C1_PropagationConsistency ==
    CheckedCommitted =>
        \A p \in Parents : p \in checkedNodes <=> LeafDescendants(p) \subseteq checkedNodes

C1_Witness ==
    /\ CheckedCommitted
    /\ HasNestedParent
    /\ \E p \in Parents : p \in checkedNodes
    /\ \E p \in Parents : p \notin checkedNodes /\ LeafDescendants(p) \cap checkedNodes # {}

\* C2: toggleNode(id) on an unchecked id commits a set holding id and all its
\* descendants; on a checked id it commits a set holding neither id nor any of them.
C2_ToggleNode ==
    [][(last'.type \in ToggleEvents /\ CheckedCommitted') =>
          LET id == last'.id
          IN  /\ id \notin checkedNodes =>
                    ({id} \cup Descendants(id)) \subseteq checkedNodes'
              /\ id \in checkedNodes =>
                    ({id} \cup Descendants(id)) \cap checkedNodes' = {}]_vars

\* Scenario A: root{leafA, leafB} toggled at the root
C2_Witness ==
    /\ last.type = "checkboxClick" /\ CheckedCommitted
    /\ data.roots = <<1>> /\ data.children[1] = <<2, 3>>
    /\ last.id = 1
    /\ checkedNodes = {1, 2, 3}

\* C3: setLocalGroup(parentId, newValues) commits the reconciliation of the current
\* set with parentId's descendants removed and newValues added; a leaf descendant of
\* parentId is checked afterwards iff it is in newValues.
C3_SetLocalGroup ==
    [][(last'.type = "valueChange" /\ CheckedCommitted') =>
          LET parentId == last'.id
              newValues == last'.values
          IN  /\ checkedNodes' =
                    Reconciled((checkedNodes \ Descendants(parentId)) \cup newValues)
              /\ \A l \in LeafDescendants(parentId) :
                    l \in checkedNodes' <=> l \in newValues]_vars

C3_Witness ==
    /\ last.type = "valueChange" /\ CheckedCommitted
    /\ HasNestedParent
    /\ \E l \in LeafDescendants(last.id) : l \in last.values
    /\ \E l \in LeafDescendants(last.id) : l \notin last.values
    /\ \E p \in Descendants(last.id) \cap Parents : p \in last.values /\ p \notin checkedNodes

\* C4: reconciling a reconciled set changes nothing, for every set S.
C4_ReconcileIdempotent ==
    \A S \in SUBSET NodeIds :
        updateParentCheckStates(data.roots, updateParentCheckStates(data.roots, S))
            = updateParentCheckStates(data.roots, S)

C4_Witness ==
    /\ CheckedCommitted
    /\ HasNestedParent
    /\ \E S \in SUBSET NodeIds :
          /\ updateParentCheckStates(data.roots, S) # S
          /\ updateParentCheckStates(data.roots, S) = checkedNodes
          /\ checkedNodes \cap Parents # {}

----------------------------------------------------------------------------
\* Navigation properties

\* the ids whose ancestors are all expanded (roots have none)
VisibleSet == {id \in NodeIds : Ancestors(id) \subseteq expandedNodes}

EnabledVisible == {id \in VisibleSet : ~data.disabled[id]}

Min(S) == CHOOSE x \in S : \A y \in S : x <= y

Max(S) == CHOOSE x \in S : \A y \in S : x >= y

MoveKeys == {"ArrowDown", "ArrowUp", "Home", "End"}

\* the enabled visible ids a move key scans, from the node the key is pressed on;
\* ids are pre-order ranks, so sequence order is id order
ScanRange(id, key) ==
    CASE key = "ArrowDown" -> {v \in EnabledVisible : v > id}
      [] key = "ArrowUp"   -> {v \in EnabledVisible : v < id}
      [] OTHER             -> EnabledVisible

ScanTarget(id, key) ==
    IF key \in {"ArrowDown", "Home"} THEN Min(ScanRange(id, key))
    ELSE Max(ScanRange(id, key))

\* C5: visibleNodeIds lists exactly the ids whose ancestors are all expanded, each
\* once, in depth-first pre-order (ascending pre-order rank), for the current
\* expanded set.
C5_VisibilityCorrect == visibleNodeIds = SetToSeq(VisibleSet)

\* a grandchild hidden below an expanded parent whose own parent was just collapsed
C5_Witness ==
    /\ last.type = "keydown" /\ last.key = "ArrowLeft"
    /\ last.id \notin expandedNodes
    /\ \E id \in NodeIds : /\ ParentOf(id) \in expandedNodes
                           /\ ParentOf(ParentOf(id)) = last.id
                           /\ id \notin Range(visibleNodeIds)
                           /\ ParentOf(id) \notin Range(visibleNodeIds)

\* C6: a move key never moves focus onto a disabled id, and leaves focus where it is
\* when the scan direction holds no enabled id.
C6_DisabledSkip ==
    [][(last'.type = "keydown" /\ last'.key \in MoveKeys) =>
          /\ lastFocusedNodeId' # lastFocusedNodeId => ~data.disabled[lastFocusedNodeId']
          /\ ScanRange(last'.id, last'.key) = {} => lastFocusedNodeId' = lastFocusedNodeId]_vars

\* Scenario D: ArrowDown from the node before a disabled one lands beyond it
C6_Witness ==
    /\ last.type = "keydown" /\ last.key = "ArrowDown"
    /\ lastFocusedNodeId > last.id + 1
    /\ \A v \in (last.id + 1)..(lastFocusedNodeId - 1) :
          v \in VisibleSet => data.disabled[v]
    /\ \E v \in (last.id + 1)..(lastFocusedNodeId - 1) : v \in VisibleSet

\* C7: a move key pressed on an enabled node focuses the nearest enabled visible id
\* in its direction (Home / End: the first / last enabled visible id).
C7_NavigationTarget ==
    [][(/\ last'.type = "keydown" /\ last'.key \in MoveKeys
        /\ ~data.disabled[last'.id]
        /\ ScanRange(last'.id, last'.key) # {}) =>
          lastFocusedNodeId' = ScanTarget(last'.id, last'.key)]_vars

\* ArrowUp that passed a disabled id
C7_Witness ==
    /\ last.type = "keydown" /\ last.key = "ArrowUp"
    /\ lastFocusedNodeId # NoNode /\ lastFocusedNodeId < last.id - 1
    /\ \E v \in (lastFocusedNodeId + 1)..(last.id - 1) : v \in VisibleSet /\ data.disabled[v]

\* the nodes rendered with tabIndex 0
FocusTargets == {id \in Range(visibleNodeIds) : tabIndex(id) = 0}

\* C8: whenever some visible node is enabled, exactly one visible enabled node is the
\* focus target: lastFocusedNodeId if it is set, visible and enabled, else the first
\* visible enabled id.
C8_RovingUniqueness ==
    EnabledVisible # {} =>
        FocusTargets = {IF lastFocusedNodeId \in EnabledVisible
                        THEN lastFocusedNodeId ELSE Min(EnabledVisible)}

\* C9: lastFocusedNodeId is never the id of a disabled node.
C9_NoDisabledFocus ==
    lastFocusedNodeId # NoNode => ~data.disabled[lastFocusedNodeId]

----------------------------------------------------------------------------
\* C10: a key press, a row click or a collapsible open change delivered to a disabled
\* node changes none of the expanded set, the selection, the checked set and the
\* focused id, and invokes no callback.
C10_DisabledNoOp ==
    [][(last'.type \in {"keydown", "click", "openChange"} /\ data.disabled[last'.id]) =>
          /\ UNCHANGED <<expanded, internalExpanded, checkedNodes, selectedNode,
                         lastFocusedNodeId>>
          /\ emitted' = <<>>]_vars

\* Enter on a disabled, collapsed parent while another node holds focus
C10_Witness ==
    /\ last.type = "keydown" /\ last.key = "Enter"
    /\ data.disabled[last.id] /\ ~IsLeaf(last.id)
    /\ last.id \notin expandedNodes
    /\ lastFocusedNodeId \notin {NoNode, last.id}
    /\ emitted = <<>>

----------------------------------------------------------------------------
\* Dispatch properties

Invoked(cb) == \E i \in DOMAIN emitted : emitted[i].cb = cb

\* C11: an event whose target is a disabled node (key press, row click, click on the
\* node's own checkbox in bulk mode) invokes no onCheckedNodesChange.
C11_NoToggleFromDisabled ==
    (last.type \in {"keydown", "click", "checkboxClick"} /\ data.disabled[last.id]) =>
        ~Invoked("onCheckedNodesChange")

\* Enter, or a click on the row
PrimaryActivate(ev) == (ev.type = "keydown" /\ ev.key = "Enter") \/ ev.type = "click"

Flip(S, id) == IF id \in S THEN S \ {id} ELSE S \cup {id}

\* C12: in bulk mode, Enter or a row click on an enabled parent flips the parent's
\* membership in the expanded set and leaves the checked set unchanged; on an enabled
\* leaf it flips the leaf's checked state and leaves the expanded set unchanged.
C12_BulkPrimaryActivate ==
    [][(enableBulkActions /\ PrimaryActivate(last') /\ ~data.disabled[last'.id]) =>
          LET id == last'.id
          IN  IF ~IsLeaf(id)
              THEN /\ expandedNodes' = Flip(expandedNodes, id)
                   /\ checkedNodes' = checkedNodes
                   /\ ~Invoked("onCheckedNodesChange")'
              ELSE /\ (id \in checkedNodes') <=> (id \notin checkedNodes)
                   /\ Invoked("onCheckedNodesChange")'
                   /\ expandedNodes' = expandedNodes]_vars

\* Scenario E, parent half: a row click expanded an enabled parent whose subtree holds
\* checked nodes
C12_Witness ==
    /\ enableBulkActions
    /\ last.type = "click" /\ ~IsLeaf(last.id) /\ ~data.disabled[last.id]
    /\ last.id \in expandedNodes
    /\ Descendants(last.id) \cap checkedNodes # {}
    /\ last.id \notin checkedNodes
    /\ ~Invoked("onCheckedNodesChange")

\* C15: in bulk mode no key press and no click invokes onNodeSelect or changes the
\* selected node, whether or not selection is disabled.
C15_BulkExcludesSelection ==
    [][(enableBulkActions /\ last'.type \in {"keydown", "click", "checkboxClick"}) =>
          /\ selectedNode' = selectedNode
          /\ ~Invoked("onNodeSelect")']_vars

\* selection enabled, a node selected, and a click on another, enabled leaf
C15_Witness ==
    /\ enableBulkActions /\ ~disableSelection
    /\ last.type = "click" /\ IsLeaf(last.id) /\ ~data.disabled[last.id]
    /\ selectedNode \notin {NoNode, last.id}
    /\ CheckedCommitted

\* the calls of cb made by the last event
Calls(cb) == SelectSeq(emitted, LAMBDA c : c.cb = cb)

\* C13: outside bulk mode, Space or Enter on an enabled node flips the node's
\* membership in the expanded set iff the node has children, and invokes
\* onNodeSelect(id), once, iff selection is not disabled; for a parent with selection
\* enabled both happen in the one event.
C13_NavPrimaryActivate ==
    [][(/\ ~enableBulkActions
        /\ last'.type = "keydown" /\ last'.key \in {" ", "Enter"}
        /\ ~data.disabled[last'.id]) =>
          LET id == last'.id
          IN  /\ expandedNodes' = IF IsLeaf(id) THEN expandedNodes ELSE Flip(expandedNodes, id)
              /\ Calls("onNodeSelect")' =
                    IF ~disableSelection
                    THEN <<Call("onNodeSelect", {id})>> ELSE <<>>]_vars

\* Space on an enabled, expanded parent with selection enabled: collapsed and selected
C13_Witness ==
    /\ ~enableBulkActions /\ ~disableSelection
    /\ last.type = "keydown" /\ last.key = " "
    /\ ~IsLeaf(last.id) /\ ~data.disabled[last.id]
    /\ last.id \notin expandedNodes
    /\ selectedNode = last.id
    /\ Invoked("onNodeSelect")
    /\ lastFocusedNodeId \notin {NoNode, last.id}

\* C14: with disableSelection set no key press and no click invokes onNodeSelect or
\* changes the selected node; with it clear, an event that selects invokes
\* onNodeSelect once with the event's node, which becomes the one selected node.
C14_SelectionDisabled ==
    [][last'.type \in {"keydown", "click"} =>
          /\ disableSelection => (selectedNode' = selectedNode /\ ~Invoked("onNodeSelect")')
          /\ Invoked("onNodeSelect")' =>
                /\ Calls("onNodeSelect")' = <<Call("onNodeSelect", {last'.id})>>
                /\ selectedNode' = last'.id]_vars

\* selection disabled, the caller's selection kept after a click on another, enabled leaf
C14_Witness ==
    /\ disableSelection
    /\ last.type = "click" /\ IsLeaf(last.id) /\ ~data.disabled[last.id]
    /\ selectedNode \notin {NoNode, last.id}
    /\ emitted = <<>>

----------------------------------------------------------------------------
\* Expansion properties

\* the events on an enabled parent whose handler calls onToggleNode in either mode:
\* Enter, a click on the row, an open change of the collapsible
ExpansionToggle(ev) ==
    /\ ev.type = "openChange" \/ PrimaryActivate(ev)
    /\ ~IsLeaf(ev.id) /\ ~data.disabled[ev.id]

\* C16: after a toggle of id (the caller storing what onExpandedChange hands it into
\* the expanded prop) the expanded set that visibility is computed from differs from
\* the one before exactly in id, whichever of expanded and onExpandedChange are
\* supplied.
C16_ToggleFlipsEffective ==
    [][ExpansionToggle(last') => expandedNodes' = Flip(expandedNodes, last'.id)]_vars

\* C17: a toggle hands its new set to exactly one of onExpandedChange and
\* setInternalExpanded, and that set is the flipped one; onExpandedChange is used only
\* when the expanded prop is supplied, setInternalExpanded always when it is not.
C17_OneSink ==
    [][ExpansionToggle(last') =>
          LET ext == Calls("onExpandedChange")'
              own == Calls("setInternalExpanded")'
          IN  /\ Len(ext) + Len(own) = 1
              /\ (ext \o own)[1].arg = Flip(expandedNodes, last'.id)
              /\ ext # <<>> => (expanded' = ext[1].arg /\ internalExpanded' = internalExpanded
                                /\ "expanded" \in supplied)
              /\ own # <<>> => (internalExpanded' = own[1].arg /\ expanded' = expanded)
              /\ "expanded" \notin supplied => own # <<>>]_vars

\* a controlled toggle that expanded a parent, the internal set left without it
C17_Witness ==
    /\ last.type = "openChange"
    /\ Invoked("onExpandedChange") /\ ~Invoked("setInternalExpanded")
    /\ last.id \in expanded /\ last.id \notin internalExpanded

\* C18 as stated: every change of the expanded set, of the checked set and of the
\* selection invokes the matching callback once with the complete new value, the
\* expanded set in controlled and in uncontrolled mode alike.
C18_EachChangeFiresOnce ==
    [][/\ (expandedNodes' # expandedNodes /\ "onExpandedChange" \in supplied) =>
              Calls("onExpandedChange")' = <<Call("onExpandedChange", expandedNodes')>>
       /\ checkedNodes' # checkedNodes =>
              Calls("onCheckedNodesChange")' = <<Call("onCheckedNodesChange", checkedNodes')>>
       /\ selectedNode' # selectedNode =>
              Calls("onNodeSelect")' = <<Call("onNodeSelect", {selectedNode'})>>]_vars

\* C18, amended: a change of the expanded set invokes onExpandedChange once with the
\* complete new set when the expanded prop is supplied, and invokes no callback when
\* the set is owned by the tree; a change of the checked set invokes
\* onCheckedNodesChange once with the complete new set; a selection invokes
\* onNodeSelect once with the id; no callback is invoked twice by one event.
C18_CallbackPerCommit ==
    [][/\ expandedNodes' # expandedNodes =>
              /\ expandedNodes' = Flip(expandedNodes, last'.id)
              /\ Calls("onExpandedChange")' =
                    IF "expanded" \in supplied
                    THEN <<Call("onExpandedChange", Flip(expandedNodes, last'.id))>>
                    ELSE <<>>
       /\ checkedNodes' # checkedNodes =>
              Calls("onCheckedNodesChange")' = <<Call("onCheckedNodesChange", checkedNodes')>>
       /\ Invoked("onNodeSelect")' =>
              /\ Calls("onNodeSelect")' = <<Call("onNodeSelect", {last'.id})>>
              /\ selectedNode' = last'.id
       /\ \A cb \in {"onExpandedChange", "onCheckedNodesChange", "onNodeSelect"} :
              Len(Calls(cb)') <= 1]_vars

\* Enter on a parent in navigation mode, expansion controlled: one onExpandedChange
\* carrying both expanded ids, then one onNodeSelect
C18_Witness ==
    /\ last.type = "keydown" /\ last.key = "Enter"
    /\ emitted = <<Call("onExpandedChange", expanded), Call("onNodeSelect", {last.id})>>
    /\ last.id \in expanded
    /\ Cardinality(expanded) >= 2

----------------------------------------------------------------------------
\* the checked set a committing event leaves, from the tree, the set before and the
\* event alone
CheckedAfter(S, ev) ==
    LET sub == {ev.id} \cup Descendants(ev.id)
    IN  IF ev.type = "valueChange"
        THEN Reconciled((S \ Descendants(ev.id)) \cup ev.values)
        ELSE Reconciled(IF ev.id \in S THEN S \ sub ELSE S \cup sub)

\* C19: the set a toggleNode or setLocalGroup operation commits is determined by the
\* tree, the checked set before it and the operation, whatever the expanded set is,
\* and an event that changes the expanded set commits no checked set and leaves the
\* checked set as it was.
C19_ExpansionIndependent ==
    [][/\ CheckedCommitted' => checkedNodes' = CheckedAfter(checkedNodes, last')
       /\ ~CheckedCommitted' => checkedNodes' = checkedNodes
       /\ expandedNodes' # expandedNodes => (~CheckedCommitted' /\ checkedNodes' = checkedNodes)]_vars

\* Scenario C: with the parent collapsed its group checked one hidden leaf of two; the
\* leaf is in the checked set and the parent is not
C19_Witness ==
    /\ last.type = "valueChange" /\ CheckedCommitted
    /\ last.id \notin expandedNodes
    /\ last.id \notin checkedNodes
    /\ \E l \in LeafDescendants(last.id) : l \in checkedNodes /\ l \notin VisibleSet
    /\ \E l \in LeafDescendants(last.id) : l \notin checkedNodes

----------------------------------------------------------------------------
\* C20 as stated: disabledNodesMap holds every id of the tree whose disabled flag is
\* true, the ids hidden below collapsed ancestors included.
C20_DisabledFromFullTree == disabledNodesMap = {id \in NodeIds : data.disabled[id]}

\* C20, amended: disabledNodesMap holds exactly the visible ids whose disabled flag is
\* true, for every tree and every expanded set; it is recomputed with the visible ids,
\* so a disabled node enters it when its ancestors are expanded.
C20_DisabledOfVisible == disabledNodesMap = {id \in VisibleSet : data.disabled[id]}

\* ArrowRight expanded a parent and its disabled child is now in the map
C20_Witness ==
    /\ last.type = "keydown" /\ last.key = "ArrowRight"
    /\ last.id \in expandedNodes
    /\ \E d \in NodeIds : data.disabled[d] /\ ParentOf(d) = last.id /\ d \in disabledNodesMap

----------------------------------------------------------------------------
\* C21: ArrowRight on an enabled node adds the node to the expanded set when it has
\* children and is not in it, and leaves the expanded set unchanged otherwise; the
\* focused id, the selected node and the checked set stay as they are.
C21_ExpandCommand ==
    [][(last'.type = "keydown" /\ last'.key = "ArrowRight" /\ ~data.disabled[last'.id]) =>
          LET id == last'.id
          IN  /\ expandedNodes' = IF ~IsLeaf(id) /\ id \notin expandedNodes
                                  THEN expandedNodes \cup {id} ELSE expandedNodes
              /\ UNCHANGED <<lastFocusedNodeId, selectedNode, checkedNodes>>]_vars

\* ArrowRight expanded a parent while another node is focused and another selected
C21_Witness ==
    /\ last.type = "keydown" /\ last.key = "ArrowRight"
    /\ ~data.disabled[last.id]
    /\ Invoked("setInternalExpanded") /\ last.id \in expandedNodes
    /\ lastFocusedNodeId \notin {NoNode, last.id}
    /\ selectedNode \notin {NoNode, last.id}

\* C22: ArrowLeft on an enabled node removes the node from the expanded set when it
\* has children and is in it, the focused id staying; otherwise the expanded set is
\* unchanged and the focused id becomes the node's parent, or stays for a root.
C22_CollapseCommand ==
    [][(last'.type = "keydown" /\ last'.key = "ArrowLeft" /\ ~data.disabled[last'.id]) =>
          LET id == last'.id
          IN  /\ UNCHANGED <<selectedNode, checkedNodes>>
              /\ IF ~IsLeaf(id) /\ id \in expandedNodes
                 THEN /\ expandedNodes' = expandedNodes \ {id}
                      /\ lastFocusedNodeId' = lastFocusedNodeId
                 ELSE /\ expandedNodes' = expandedNodes
                      /\ lastFocusedNodeId' = IF ParentOf(id) # NoNode THEN ParentOf(id)
                                              ELSE lastFocusedNodeId]_vars

\* ArrowLeft on a grandchild moved the focus to its parent, not to the root above
C22_Witness ==
    /\ last.type = "keydown" /\ last.key = "ArrowLeft"
    /\ ~data.disabled[last.id]
    /\ ParentOf(last.id) # NoNode /\ ParentOf(ParentOf(last.id)) # NoNode
    /\ lastFocusedNodeId = ParentOf(last.id)
    /\ emitted = <<>>

RECURSIVE Below(_)
\* the ids below a node, read off the children arrays
Below(id) == UNION {{c} \cup Below(c) : c \in Range(data.children[id])}

\* the ids below a disabled node
BelowDisabled == UNION {Below(x) : x \in {n \in NodeIds : data.disabled[n]}}

\* C23: toggleNode on an enabled node adds or removes every descendant, the disabled
\* ones and the ones below disabled nodes included, and after a commit a parent is in
\* the checked set iff all its leaf descendants are, disabled leaves counting like
\* enabled ones.
C23_DisabledParticipate ==
    [][CheckedCommitted' =>
          /\ (last'.type \in ToggleEvents /\ ~data.disabled[last'.id]) =>
                \A d \in Below(last'.id) :
                    (data.disabled[d] \/ d \in BelowDisabled) =>
                        (d \in checkedNodes' <=> last'.id \notin checkedNodes)
          /\ \A p \in Parents :
                /\ p \in checkedNodes' =>
                      \A l \in Below(p) : (IsLeaf(l) /\ data.disabled[l]) => l \in checkedNodes'
                /\ p \notin checkedNodes' =>
                      \E l \in Below(p) : IsLeaf(l) /\ l \notin checkedNodes']_vars

\* an enabled root was checked and took a disabled child and that child's own child
\* with it
C23_Witness ==
    /\ last.type = "checkboxClick" /\ CheckedCommitted
    /\ ~data.disabled[last.id]
    /\ last.id \in checkedNodes
    /\ \E d \in Descendants(last.id) :
          /\ data.disabled[d] /\ d \in checkedNodes
          /\ \E e \in Descendants(d) : e \in checkedNodes

\* the leaves below a node
LeavesBelow(id) == {l \in Below(id) : IsLeaf(l)}

\* C24: for every set S, reconciliation adds to S only ids of nodes that have at
\* least one leaf descendant, all of them checked; a node without leaf descendants
\* (its children list is empty) is never added.
C24_NoZeroLeafAutoCheck ==
    \A S \in SUBSET NodeIds :
        LET R == updateParentCheckStates(data.roots, S)
        IN  \A n \in R \ S : LeavesBelow(n) # {} /\ LeavesBelow(n) \subseteq R

\* a commit whose reconciliation added a parent while a node with an empty children
\* list stayed out of the set
C24_Witness ==
    /\ CheckedCommitted
    /\ last.type = "valueChange"
    /\ \E p \in Parents : p \in checkedNodes /\ p \notin last.values /\ p # last.id
    /\ \E n \in NodeIds : LeavesBelow(n) = {} /\ n \notin checkedNodes

\* the two props the checked operations need are not both supplied
Unconfigured == ~({"checkedNodes", "onCheckedNodesChange"} \subseteq supplied)

\* C25: a toggleNode or setLocalGroup operation on a tree that was given no
\* checkedNodes or no onCheckedNodesChange raises a configuration error and leaves
\* all state unchanged.
C25_FailsFast ==
    [][(last'.type \in {"checkboxClick", "valueChange"} /\ Unconfigured) =>
          /\ Invoked("Error")'
          /\ UNCHANGED <<expanded, internalExpanded, checkedNodes, selectedNode,
                         lastFocusedNodeId>>]_vars

\* C26: an expansion toggle of an id that is a leaf or is no id of the tree raises
\* no error and leaves the visible sequence, the disabled set, the checked set and
\* the selected node as they were.
C26_LeafToggleNoOp ==
    [][(last'.type = "toggle" /\ (last'.id \notin NodeIds \/ IsLeaf(last'.id))) =>
          /\ ~Invoked("Error")'
          /\ visibleNodeIds' = visibleNodeIds
          /\ disabledNodesMap' = disabledNodesMap
          /\ checkedNodes' = checkedNodes
          /\ selectedNode' = selectedNode]_vars

\* an id outside the tree was toggled into the expanded set, a leaf is in it too, and
\* an expanded parent shows its children
C26_Witness ==
    /\ last.type = "toggle"
    /\ last.id \notin NodeIds /\ last.id \in expandedNodes
    /\ \E l \in NodeIds : IsLeaf(l) /\ l \in expandedNodes
    /\ \E p \in Parents : p \in expandedNodes
    /\ Len(visibleNodeIds) > Len(data.roots)

\* the effects one step had, read off the calls it made and the focus it moved
StepEffects ==
    (IF Invoked("setInternalExpanded")' \/ Invoked("onExpandedChange")'
     THEN {"expand/collapse"} ELSE {})
    \cup (IF Invoked("onNodeSelect")' THEN {"select"} ELSE {})
    \cup (IF Invoked("onCheckedNodesChange")' THEN {"toggle-checked"} ELSE {})
    \cup (IF lastFocusedNodeId' # lastFocusedNodeId THEN {"move-focus"} ELSE {})

\* C27 as stated: no key press or click on a node has two different effects.
C27_ExactlyOneEffect ==
    [][last'.type \in {"keydown", "click"} => Cardinality(StepEffects) <= 1]_vars

\* Enter, Space or a click on an enabled parent, outside bulk mode, selection enabled
NavActivateParent(ev) ==
    /\ ~enableBulkActions /\ ~disableSelection
    /\ ~IsLeaf(ev.id) /\ ~data.disabled[ev.id]
    /\ (ev.type = "click" \/ (ev.type = "keydown" /\ ev.key \in {" ", "Enter"}))

\* C27 amended: a key press or click on a node has at most one effect, except that
\* outside bulk mode with selection enabled Enter, Space or a click on an enabled
\* parent has the two effects expand/collapse and select.
C27_OneEffectUnlessNavActivate ==
    [][last'.type \in {"keydown", "click"} =>
          IF NavActivateParent(last')
          THEN StepEffects = {"expand/collapse", "select"}
          ELSE Cardinality(StepEffects) <= 1]_vars

\* in bulk mode, after focus moved and a leaf was checked, Enter collapsed a parent and
\* did nothing else
C27_Witness ==
    /\ enableBulkActions
    /\ last.type = "keydown" /\ last.key = "Enter"
    /\ ~IsLeaf(last.id) /\ last.id \notin expandedNodes
    /\ Invoked("setInternalExpanded") /\ Len(emitted) = 1
    /\ checkedNodes # {}
    /\ lastFocusedNodeId \notin {NoNode, last.id}

\* toggleNode(id) applied to the set S
ToggleNodeOn(S, id) ==
    LET T == IF id \in S THEN S \ ({id} \cup Below(id)) ELSE S \cup {id} \cup Below(id)
    IN  {x \in T : IsLeaf(x)} \cup {p \in Parents : LeavesBelow(p) \subseteq T}

\* C28: every event works on the sets the event before it committed: a step that
\* commits a checked set commits toggleNode applied to the current checked set and
\* leaves the expanded set, a step that toggles expansion flips the node in the
\* current expanded set and leaves the checked set, and any other step leaves both;
\* so a sequence of events ends in the composition of its operations.
C28_SequentialComposition ==
    [][/\ Invoked("onCheckedNodesChange")' =>
             /\ checkedNodes' = ToggleNodeOn(checkedNodes, last'.id)
             /\ Calls("onCheckedNodesChange")' = <<Call("onCheckedNodesChange", checkedNodes')>>
             /\ expandedNodes' = expandedNodes
       /\ Invoked("setInternalExpanded")' =>
             /\ expandedNodes' = Flip(expandedNodes, last'.id)
             /\ Calls("setInternalExpanded")' = <<Call("setInternalExpanded", expandedNodes')>>
             /\ checkedNodes' = checkedNodes
       /\ (~Invoked("onCheckedNodesChange")' /\ ~Invoked("setInternalExpanded")') =>
             (checkedNodes' = checkedNodes /\ expandedNodes' = expandedNodes)]_vars

\* Space checked a leaf while another leaf of the same parent, checked by an earlier
\* event, is still in the set, and the parent was added on top of both
C28_Witness ==
    /\ enableBulkActions
    /\ last.type = "keydown" /\ last.key = " "
    /\ Invoked("onCheckedNodesChange")
    /\ last.id \in checkedNodes
    /\ \E l \in checkedNodes : IsLeaf(l) /\ l # last.id /\ l \notin Below(last.id)
    /\ IsLeaf(last.id) /\ ParentOf(last.id) \in checkedNodes
    /\ Cardinality(LeavesBelow(ParentOf(last.id))) > 1

\* C29: the set the immediate-parent setLocalGroup(P, newValues) commits contains P
\* iff every leaf descendant of P is in newValues, for every subset newValues of P's
\* descendants.
C29_ParentIffAllLeaves ==
    [][(last'.type = "valueChange" /\ CheckedCommitted') =>
          (last'.id \in checkedNodes' <=> LeavesBelow(last'.id) \subseteq last'.values)]_vars

\* C30: when the immediate-parent setLocalGroup runs on a parent P that has a parent
\* A, from a reconciled set, A keeps the membership it had; if P's new leaves make
\* A's leaves complete while A was out, or incomplete while A was in, the committed
\* set differs from the one the global policy commits for the same call, which has A
\* in it iff A's leaves are complete.
C30_PoliciesDiffer ==
    [][(/\ last'.type = "valueChange" /\ CheckedCommitted'
        /\ ParentOf(last'.id) # NoNode
        /\ checkedNodes = Reconciled(checkedNodes)) =>
          LET P == last'.id
              A == ParentOf(P)
              complete == LeavesBelow(A) \subseteq ((checkedNodes \ Below(P)) \cup last'.values)
              global == CHOOSE S \in handleLocalCheckboxChange(P, last'.values) : TRUE
          IN  /\ A \in checkedNodes' <=> A \in checkedNodes
              /\ complete # (A \in checkedNodes) =>
                    /\ checkedNodes' # global
                    /\ A \in global <=> complete]_vars

\* Scenario: root{mid{leaf}}; the group of mid checked its leaf and mid, and the root
\* above, whose leaves are now all checked, is still out of the set
C30_Witness ==
    /\ last.type = "valueChange" /\ CheckedCommitted
    /\ ParentOf(last.id) # NoNode
    /\ last.id \in checkedNodes
    /\ LeavesBelow(last.id) \subseteq last.values
    /\ ParentOf(last.id) \notin checkedNodes
    /\ LeavesBelow(ParentOf(last.id)) \subseteq checkedNodes
    /\ updateParentCheckStates(data.roots, checkedNodes) = checkedNodes \cup {ParentOf(last.id)}

\* C31: in bulk mode Space on an enabled node, parent or leaf, runs toggleNode for the
\* node and nothing else: the node's membership in the checked set flips, and the
\* expanded set, the selected node and the focused id stay as they are.
C31_BulkSpaceTogglesChecked ==
    [][(enableBulkActions /\ last'.type = "keydown" /\ last'.key = " "
        /\ ~data.disabled[last'.id]) =>
          /\ Calls("onCheckedNodesChange")' = <<Call("onCheckedNodesChange", checkedNodes')>>
          /\ last'.id \in checkedNodes' <=> last'.id \notin checkedNodes
          /\ Len(emitted') = 1
          /\ UNCHANGED <<expanded, internalExpanded, selectedNode, lastFocusedNodeId>>]_vars

\* Space unchecked an expanded parent and its subtree while the focus is on another
\* node
C31_Witness ==
    /\ enableBulkActions
    /\ last.type = "keydown" /\ last.key = " "
    /\ ~IsLeaf(last.id) /\ ~data.disabled[last.id]
    /\ last.id \in expandedNodes
    /\ ({last.id} \cup Below(last.id)) \cap checkedNodes = {}
    /\ lastFocusedNodeId \notin {NoNode, last.id}

RECURSIVE FollowParentMap(_, _)
\* the id reached from id by k lookups in parentNodeMap, NoNode once a lookup fails
FollowParentMap(id, k) ==
    IF k = 0 \/ id = NoNode THEN id ELSE FollowParentMap(parentNodeMapGet(id), k - 1)

\* C32: whatever the expanded set is, parentNodeMap has exactly one entry for every
\* node that is not a root, holding the node in whose children array it occurs, has
\* no entry for a root, and following it from any node ends at a root within as many
\* steps as the tree has nodes.
C32_ParentMapCorrect ==
    /\ \A e \in parentNodeMap : e[1] \in NodeIds /\ e[1] \in Range(data.children[e[2]])
    /\ \A n \in NodeIds :
          /\ Cardinality({e \in parentNodeMap : e[1] = n}) =
                IF n \in Range(data.roots) THEN 0 ELSE 1
          /\ \E k \in 0..Cardinality(NodeIds) :
                /\ FollowParentMap(n, k) \in Range(data.roots)
                /\ FollowParentMap(n, k + 1) = NoNode

\* ArrowLeft moved the focus from a node to its parent; the map also holds the
\* children of a collapsed parent, which are not visible
C32_Witness ==
    /\ last.type = "keydown" /\ last.key = "ArrowLeft"
    /\ lastFocusedNodeId = parentNodeMapGet(last.id)
    /\ lastFocusedNodeId \in NodeIds
    /\ \E e \in parentNodeMap : e[2] \notin expandedNodes /\ e[1] \notin VisibleSet

\* C33: in every state, the one right after an expansion toggle has revealed nodes
\* included, each id of visibleNodeIds is in disabledNodesMap iff its node's disabled
\* flag is true.
C33_VisibleDisabledKnown ==
    \A i \in DOMAIN visibleNodeIds :
        (visibleNodeIds[i] \in disabledNodesMap) <=> data.disabled[visibleNodeIds[i]]

\* the open change of a collapsed parent revealed a disabled child and an enabled one
C33_Witness ==
    /\ last.type = "openChange"
    /\ last.id \in expandedNodes
    /\ \E d \in Range(data.children[last.id]) : data.disabled[d] /\ d \in disabledNodesMap
    /\ \E c \in Range(data.children[last.id]) : ~data.disabled[c] /\ c \notin disabledNodesMap
    /\ Len(visibleNodeIds) = Cardinality(NodeIds)

\* what the checkbox group shows as indeterminate for a parent: its value is neither
\* empty nor all of allValues
GroupIndeterminate(p) ==
    /\ Range(localChildValues(p)) # {}
    /\ Range(localChildValues(p)) # Range(allDescendantIds(p))

\* C34: in the empty checked set and after every commit of toggleNode or
\* setLocalGroup, a parent's group is indeterminate iff some leaf below the parent is
\* checked and some leaf below it is not, and a parent in the checked set is not
\* indeterminate.
C34_IndeterminateDerived ==
    (CheckedCommitted \/ checkedNodes = {}) =>
        \A p \in Parents :
            /\ GroupIndeterminate(p) <=>
                  /\ \E l \in LeavesBelow(p) : l \in checkedNodes
                  /\ \E l \in LeavesBelow(p) : l \notin checkedNodes
            /\ p \in checkedNodes => ~GroupIndeterminate(p)

\* Scenario B: root{leafA, leafB}, leafA alone was toggled; the root is indeterminate
C34_Witness ==
    /\ CheckedCommitted
    /\ data.roots = <<1>> /\ data.children[1] = <<2, 3>>
    /\ last.id = 2 /\ last.type \in ToggleEvents
    /\ checkedNodes = {2}
    /\ GroupIndeterminate(1)

\* C35: the set a toggleNode or setLocalGroup operation commits is downward closed: a
\* node with children that is in it has every node below it, parents and leaves, in it.
C35_DownwardClosed ==
    CheckedCommitted =>
        \A p \in Parents : p \in checkedNodes => Below(p) \subseteq checkedNodes

\* a checked parent holds a checked parent below it, and some other node is unchecked
C35_Witness ==
    /\ CheckedCommitted
    /\ \E p \in Parents \cap checkedNodes : \E q \in Below(p) : ~IsLeaf(q) /\ q \in checkedNodes
    /\ \E n \in NodeIds : n \notin checkedNodes

\* C36: toggleNode(id) and setLocalGroup(id, ...) leave the membership of every leaf
\* that is neither id nor below id as it was; a node with children outside id's
\* subtree is in the committed set iff all the leaves below it are.
C36_LocalOnLeaves ==
    [][CheckedCommitted' =>
          \A n \in NodeIds \ ({last'.id} \cup Below(last'.id)) :
              IF IsLeaf(n)
              THEN n \in checkedNodes' <=> n \in checkedNodes
              ELSE n \in checkedNodes' <=> LeavesBelow(n) \subseteq checkedNodes']_vars

\* a group change checked its parent while a checked leaf outside the parent's subtree
\* stayed checked
C36_Witness ==
    /\ last.type = "valueChange" /\ CheckedCommitted
    /\ last.id \in checkedNodes
    /\ \E l \in NodeIds \ ({last.id} \cup Below(last.id)) : IsLeaf(l) /\ l \in checkedNodes

\* C37: with uncontrolled expansion, the focus starting on a visible enabled node and
\* every key pressed on the focused node, the focused id is an id of visibleNodeIds
\* after any sequence of arrows, Home, End, Enter and Space.
C37_FocusStaysVisible ==
    \E i \in DOMAIN visibleNodeIds : visibleNodeIds[i] = lastFocusedNodeId

\* Enter or Space collapsed the focused parent, which lies below another node; the
\* focus is still on it
C37_Witness ==
    /\ last.type = "keydown" /\ last.key \in {"Enter", " "}
    /\ lastFocusedNodeId = last.id
    /\ ~IsLeaf(last.id) /\ last.id \notin expandedNodes
    /\ Invoked("setInternalExpanded")
    /\ ParentOf(last.id) # NoNode

\* the ids a traversal can stand on; ids are numbered in sequence order
TraverseIds == 1..MaxNavNodes

\* C38: with the expanded set fixed, Home followed by ArrowDown over and over goes to
\* the first enabled visible id, then with each press to the next enabled visible id
\* in sequence order, passes every enabled visible id, and from some press on stays on
\* the last one; End followed by ArrowUp does the same in the other direction.
C38_TraversalVisitsAll ==
    /\ [][/\ last'.key = "Home" => lastFocusedNodeId' = Min(EnabledVisible)
          /\ last'.key = "End" => lastFocusedNodeId' = Max(EnabledVisible)
          /\ last'.key = "ArrowDown" =>
                lastFocusedNodeId' =
                    LET after == {e \in EnabledVisible : e > lastFocusedNodeId}
                    IN  IF after = {} THEN lastFocusedNodeId ELSE Min(after)
          /\ last'.key = "ArrowUp" =>
                lastFocusedNodeId' =
                    LET before == {e \in EnabledVisible : e < lastFocusedNodeId}
                    IN  IF before = {} THEN lastFocusedNodeId ELSE Max(before)]_vars
    /\ \A e \in TraverseIds :
          e \in EnabledVisible => <>(last.type = "keydown" /\ lastFocusedNodeId = e)
    /\ <>[](/\ last.type = "keydown"
            /\ lastFocusedNodeId = IF last.key \in {"Home", "ArrowDown"}
                                   THEN Max(EnabledVisible) ELSE Min(EnabledVisible))

\* ArrowDown arrived on the last enabled visible id after passing a disabled one
C38_Witness ==
    /\ last.type = "keydown" /\ last.key = "ArrowDown"
    /\ lastFocusedNodeId = Max(EnabledVisible)
    /\ Cardinality(EnabledVisible) >= 2
    /\ \E d \in VisibleSet : data.disabled[d] /\ d < lastFocusedNodeId /\ d > Min(EnabledVisible)

====
